---- MODULE Spec2Model ----
(***************************************************************************)
(* The streaming AI-transform session of the editor (Editor.runCodex in    *)
(* src/src/components/Tab.ts): one run of the external process, its two    *)
(* event listeners, the cancel button and the buffer of the editor widget. *)
(*                                                                         *)
(* Text is a sequence of one-character strings; "ESC" stands for the one   *)
(* character \x1b and "BQ" for the backquote.  Offsets are 0-based as in  *)
(* the source, sequences are 1-based: the character at source offset i is  *)
(* s[i + 1].                                                               *)
(***************************************************************************)
EXTENDS Integers, Sequences, FiniteSets, TLC

(***************************************************************************)
(* Characters and literals of the regular expressions in Tab.ts            *)
(***************************************************************************)
Upper ==
    <<"A", "B", "C", "D", "E", "F", "G", "H", "I", "J", "K", "L", "M", "N", "O", "P", "Q", "R", "S", "T", "U", "V", "W", "X", "Y", "Z">>

LowerSeq ==
    <<"a", "b", "c", "d", "e", "f", "g", "h", "i", "j", "k", "l", "m", "n", "o", "p", "q", "r", "s", "t", "u", "v", "w", "x", "y", "z">>

\* the /i flag: letters compare by their lower-case form
Lower(c) ==
    IF \E i \in 1..Len(Upper) : Upper[i] = c
    THEN LowerSeq[CHOOSE i \in 1..Len(Upper) : Upper[i] = c]
    ELSE c

\* \s of the regular expressions, and String.prototype.trimStart
IsSpace(c) ==
    c \in {" ", "\t", "\n", "\r", "\f"}

IsDigit(c) ==
    c \in {"0", "1", "2", "3", "4", "5", "6", "7", "8", "9"}

\* the class [-=_]
IsSepChar(c) ==
    c \in {"-", "=", "_"}

DashLit ==
    <<"-", "-", "-">>

InputLit ==
    <<"i", "n", "p", "u", "t">>

EndLit ==
    <<"e", "n", "d">>

StartLit ==
    <<"s", "t", "a", "r", "t">>

GuidanceLit ==
    <<"r", "e", "t", "u", "r", "n", " ", "o", "n", "l", "y", " ", "t", "h", "e", " ", "t", "r", "a", "n", "s", "f", "o", "r", "m", "e", "d", " ", "t", "e", "x", "t">>

UserInstrLit ==
    <<"u", "s", "e", "r", " ", "i", "n", "s", "t", "r", "u", "c", "t", "i", "o", "n", "s">>

CodexLit ==
    <<"c", "o", "d", "e", "x">>

FenceLit ==
    <<"BQ", "BQ", "BQ">>

KReasoning ==
    <<"r", "e", "a", "s", "o", "n", "i", "n", "g">>

KEffort ==
    <<"e", "f", "f", "o", "r", "t">>

KSummaries ==
    <<"s", "u", "m", "m", "a", "r", "i", "e", "s">>

KToken ==
    <<"t", "o", "k", "e", "n">>

\* workdir|provider|approval|sandbox|usage|model|runId (the keys without a suffix)
PlainKeys ==
    { <<"w", "o", "r", "k", "d", "i", "r">>,
      <<"p", "r", "o", "v", "i", "d", "e", "r">>,
      <<"a", "p", "p", "r", "o", "v", "a", "l">>,
      <<"s", "a", "n", "d", "b", "o", "x">>,
      <<"u", "s", "a", "g", "e">>,
      <<"m", "o", "d", "e", "l">>,
      <<"r", "u", "n", "i", "d">> }

(***************************************************************************)
(* String helpers                                                          *)
(***************************************************************************)
Min(a, b) ==
    IF a < b THEN a ELSE b

Max(a, b) ==
    IF a > b THEN a ELSE b

\* s.slice(n)
Drop(s, n) ==
    SubSeq(s, n + 1, Len(s))

\* s.slice(0, n)
Take(s, n) ==
    SubSeq(s, 1, n)

\* the literal lit (lower case) matches s at index i, ignoring case
MatchLit(s, i, lit) ==
    /\ i >= 1
    /\ i + Len(lit) - 1 <= Len(s)
    /\ \A k \in 1..Len(lit) : Lower(s[i + k - 1]) = lit[k]

\* \s* from index i: the index of the first non-space character at or after i
\* (the least index from i on that is behind s or holds no space)
SkipSpace(s, i) ==
    LET stops == {j \in i..(Len(s) + 1) : j > Len(s) \/ ~IsSpace(s[j])}
    IN  IF i > Len(s) THEN i
        ELSE CHOOSE j \in stops : \A k \in stops : j <= k

\* [-=_]* from index i
RECURSIVE SkipSep(_, _)
SkipSep(s, i) ==
    IF i <= Len(s) /\ IsSepChar(s[i]) THEN SkipSep(s, i + 1) ELSE i

\* [0-9;]* from index i
RECURSIVE SkipSgr(_, _)
SkipSgr(s, i) ==
    IF i <= Len(s) /\ (IsDigit(s[i]) \/ s[i] = ";") THEN SkipSgr(s, i + 1) ELSE i

\* s.replace(/^\s+/, "") and line.trimStart()
TrimStart(s) ==
    Drop(s, SkipSpace(s, 1) - 1)

RECURSIVE TrimEnd(_)
\* s.replace(/\s+$/, "")
TrimEnd(s) ==
    IF s # <<>> /\ IsSpace(s[Len(s)]) THEN TrimEnd(Take(s, Len(s) - 1)) ELSE s

\* the length of the match of /\s+$/ (0 when there is none)
TrailingSpace(s) ==
    Len(s) - Len(TrimEnd(s))

RECURSIVE NormEol(_)
\* s.replace(/\r\n?/g, '\n'); also .replace(/\r\n/g,'\n').replace(/\r/g,'\n')
\* (computed by halves: a LF that follows a CR at the end of the left half
\* belongs to that CR)
NormEol(s) ==
    IF Len(s) = 0 THEN <<>>
    ELSE IF Len(s) = 1 THEN (IF s[1] = "\r" THEN <<"\n">> ELSE s)
    ELSE LET h  == Len(s) \div 2
             nr == NormEol(Drop(s, h))
         IN  NormEol(Take(s, h))
                 \o (IF s[h] = "\r" /\ s[h + 1] = "\n" THEN Tail(nr) ELSE nr)

RECURSIVE StripAnsi(_)
\* s.replace(/\x1b\[[0-9;]*m/g, '')
StripAnsi(s) ==
    IF s = <<>> THEN <<>>
    ELSE IF s[1] = "ESC" /\ Len(s) >= 2 /\ s[2] = "["
            /\ SkipSgr(s, 3) <= Len(s) /\ s[SkipSgr(s, 3)] = "m"
         THEN StripAnsi(Drop(s, SkipSgr(s, 3)))
         ELSE <<s[1]>> \o StripAnsi(Drop(s, 1))

RECURSIVE SplitLines(_)
\* s.split('\n')
SplitLines(s) ==
    IF \E i \in 1..Len(s) : s[i] = "\n"
    THEN LET i == CHOOSE j \in 1..Len(s) :
                      s[j] = "\n" /\ \A k \in 1..(j - 1) : s[k] # "\n"
         IN  <<Take(s, i - 1)>> \o SplitLines(Drop(s, i))
    ELSE <<s>>

RECURSIVE JoinLines(_)
\* lines.join('\n')
JoinLines(ls) ==
    IF ls = <<>> THEN <<>>
    ELSE IF Len(ls) = 1 THEN ls[1]
         ELSE ls[1] \o <<"\n">> \o JoinLines(Tail(ls))

(***************************************************************************)
(* Editor.sanitizeAiChunk (Tab.ts 283-304)                                 *)
(***************************************************************************)
\* /^[-=_]{3,}\s*$/ on ts
IsSeparatorLine(ts) ==
    /\ SkipSep(ts, 1) >= 4
    /\ SkipSpace(ts, SkipSep(ts, 1)) = Len(ts) + 1

\* the index after a match of /---\s*INPUT\s+<word>\s*---/i that starts at
\* index i of s, or 0 when there is none (every quantifier is followed by a
\* character outside its class, so the greedy match is the only one)
MarkerEndAt(s, i, word) ==
    IF ~MatchLit(s, i, DashLit) THEN 0
    ELSE LET a == SkipSpace(s, i + 3) IN
         IF ~MatchLit(s, a, InputLit) THEN 0
         ELSE LET b == a + Len(InputLit) IN
              IF ~(b <= Len(s) /\ IsSpace(s[b])) THEN 0
              ELSE LET c == SkipSpace(s, b) IN
                   IF ~MatchLit(s, c, word) THEN 0
                   ELSE LET d == SkipSpace(s, c + Len(word)) IN
                        IF MatchLit(s, d, DashLit) THEN d + 3 ELSE 0

\* /^Return only the transformed text\.?$/i on ts
IsGuidanceLine(ts) ==
    /\ MatchLit(ts, 1, GuidanceLit)
    /\ \/ Len(ts) = Len(GuidanceLit)
       \/ Len(ts) = Len(GuidanceLit) + 1 /\ ts[Len(ts)] = "."

\* /^User instructions\s*:/i on ts
IsUserInstrLine(ts) ==
    /\ MatchLit(ts, 1, UserInstrLit)
    /\ LET c == SkipSpace(ts, Len(UserInstrLit) + 1)
       IN  c <= Len(ts) /\ ts[c] = ":"

\* the indexes after a match, at index i, of the alternation
\* (workdir|provider|approval|sandbox|reasoning(\s+effort|\s+summaries)?|usage|model|tokens?|runId)
KeyEnds(s, i) ==
    {i + Len(k) : k \in {k \in PlainKeys : MatchLit(s, i, k)}}
    \cup (IF MatchLit(s, i, KReasoning)
          THEN LET r == i + Len(KReasoning)
                   w == SkipSpace(s, r)
               IN  {r} \cup (IF w > r /\ MatchLit(s, w, KEffort)
                             THEN {w + Len(KEffort)} ELSE {})
                       \cup (IF w > r /\ MatchLit(s, w, KSummaries)
                             THEN {w + Len(KSummaries)} ELSE {})
          ELSE {})
    \cup (IF MatchLit(s, i, KToken)
          THEN LET r == i + Len(KToken)
               IN  {r} \cup (IF r <= Len(s) /\ Lower(s[r]) = "s" THEN {r + 1} ELSE {})
          ELSE {})

\* /^(?:[-=_]{3,}\s*)?(key)\s*[:=]/i on ts: the optional separator prefix is
\* taken when it is there (a key starts with a letter), else skipped
IsMetaLine(ts) ==
    LET p == IF SkipSep(ts, 1) >= 4 THEN SkipSpace(ts, SkipSep(ts, 1)) ELSE 1
    IN  \E e \in KeyEnds(ts, p) :
            LET c == SkipSpace(ts, e)
            IN  c <= Len(ts) /\ ts[c] \in {":", "="}

\* [^\]]* from index i
RECURSIVE SkipNotBracket(_, _)
SkipNotBracket(s, i) ==
    IF i <= Len(s) /\ s[i] # "]" THEN SkipNotBracket(s, i + 1) ELSE i

\* /^\[[0-9]{4}-[0-9]{2}-[0-9]{2}[^\]]*\]/ on ts
IsTimestampLine(ts) ==
    /\ Len(ts) >= 12
    /\ ts[1] = "["
    /\ \A k \in {2, 3, 4, 5, 7, 8, 10, 11} : IsDigit(ts[k])
    /\ ts[6] = "-" /\ ts[9] = "-"
    /\ SkipNotBracket(ts, 12) <= Len(ts)

\* /^codex\s*$/i on ts
IsCodexLine(ts) ==
    /\ MatchLit(ts, 1, CodexLit)
    /\ SkipSpace(ts, Len(CodexLit) + 1) = Len(ts) + 1

\* shouldRemove(line)
ShouldRemove(line) ==
    LET ts == TrimStart(line)
    IN  \/ MatchLit(ts, 1, FenceLit)
        \/ IsSeparatorLine(ts)
        \/ MarkerEndAt(ts, 1, StartLit) # 0
        \/ MarkerEndAt(ts, 1, EndLit) # 0
        \/ IsGuidanceLine(ts)
        \/ IsUserInstrLine(ts)
        \/ IsMetaLine(ts)
        \/ IsTimestampLine(ts)
        \/ IsCodexLine(ts)

\* the lines of ls that are kept, in order
KeepLines(ls) ==
    SelectSeq(ls, LAMBDA l : ~ShouldRemove(l))

\* sanitizeAiChunk(s)
SanitizeAiChunk(s) ==
    JoinLines(KeepLines(SplitLines(StripAnsi(NormEol(s)))))

(***************************************************************************)
(* Editor.chunkForInsert (Tab.ts 267-280)                                  *)
(***************************************************************************)
\* CutAt as it would be with a window of size + 1 characters: a faulty
\* variant that C22 has to reject
CutAtWide(s, i, size) ==
    LET limit == Min(i + size + 1, Len(s))
        cand  == {j \in (i + (size \div 2) + 1)..limit : IsSpace(s[j])}
    IN  IF cand = {} THEN limit
        ELSE CHOOSE j \in cand : \A k \in cand : k <= j

\* the value of cut for the window that starts at offset i: the largest j in
\* (i + floor(size / 2), limit] with a space at s[j - 1], else limit
CutAt(s, i, size) ==
    LET limit == Min(i + size, Len(s))
        cand  == {j \in (i + (size \div 2) + 1)..limit : IsSpace(s[j])}
    IN  IF cand = {} THEN limit
        ELSE CHOOSE j \in cand : \A k \in cand : k <= j

RECURSIVE ChunkFrom(_, _, _)
\* the iterations of the while loop from offset i on
ChunkFrom(s, i, size) ==
    IF i < Len(s)
    THEN LET cut == CutAt(s, i, size)
         IN  <<SubSeq(s, i + 1, cut)>> \o ChunkFrom(s, cut, size)
    ELSE <<>>

\* chunkForInsert(s, size)
ChunkForInsert(s, size) ==
    ChunkFrom(s, 0, size)

\* the size argument of both calls
SegmentSize ==
    24

(***************************************************************************)
(* The boundary search of the codex-stream listener (Tab.ts 588-604)       *)
(***************************************************************************)
\* pending.match(/---\s*INPUT\s+END\s*---/i): the index of the leftmost match
\* (0 when there is none)
MarkerIndex(s) ==
    IF \E i \in 1..Len(s) : MarkerEndAt(s, i, EndLit) # 0
    THEN CHOOSE i \in 1..Len(s) :
             /\ MarkerEndAt(s, i, EndLit) # 0
             /\ \A k \in 1..(i - 1) : MarkerEndAt(s, k, EndLit) = 0
    ELSE 0

\* pending.replace(/^\s*Return only the transformed text\.?\s*/i, "")
StripGuidance(s) ==
    LET a == SkipSpace(s, 1)
    IN  IF MatchLit(s, a, GuidanceLit)
        THEN LET b == a + Len(GuidanceLit)
                 c == IF b <= Len(s) /\ s[b] = "." THEN b + 1 ELSE b
             IN  Drop(s, SkipSpace(s, c) - 1)
        ELSE s

\* .* from index i (the dot matches no line terminator)
RECURSIVE SkipToEol(_, _)
SkipToEol(s, i) ==
    IF i <= Len(s) /\ s[i] \notin {"\n", "\r"} THEN SkipToEol(s, i + 1) ELSE i

\* pending.replace(/^\[[^\]]+\].*\n?/g, ""): without the m flag ^ matches at
\* the start of the string only, so at most one leading bracket line goes
StripBracketLine(s) ==
    LET j == SkipNotBracket(s, 2)
    IN  IF Len(s) >= 1 /\ s[1] = "[" /\ j >= 3 /\ j <= Len(s)
        THEN LET e == SkipToEol(s, j + 1)
             IN  IF e <= Len(s) /\ s[e] = "\n" THEN Drop(s, e) ELSE Drop(s, e - 1)
        ELSE s

\* pending.replace(/^\s*codex\s*\n?/i, "")
StripCodex(s) ==
    LET a == SkipSpace(s, 1)
    IN  IF MatchLit(s, a, CodexLit)
        THEN Drop(s, SkipSpace(s, a + Len(CodexLit)) - 1)
        ELSE s

\* the tail kept while the marker has not been found (Tab.ts 592)
PendingWindow ==
    512

\* KeepTail as it would be with a window of three characters: a faulty
\* variant that C16 has to reject
KeepTailShort(s) ==
    Drop(s, Max(0, Len(s) - 3))

\* pending.slice(Math.max(0, pending.length - 512))
KeepTail(s) ==
    Drop(s, Max(0, Len(s) - PendingWindow))

\* what is left of pending after the marker found at index i was dropped with
\* the guidance line, one bracket line and one codex line that follow it
AfterMarker(s, i) ==
    StripCodex(StripBracketLine(StripGuidance(Drop(s, MarkerEndAt(s, i, EndLit) - 1))))

(***************************************************************************)
(* The editor widget as the session uses it: a buffer of characters with   *)
(* "\n" line ends, a caret, positions (line, column) and batched edits.    *)
(***************************************************************************)
\* the indexes of the line ends of b among its first n characters
NewlinesUpTo(b, n) ==
    {i \in 1..Min(n, Len(b)) : b[i] = "\n"}

\* the largest element of the set S of naturals, 0 when S is empty
MaxOf(S) ==
    IF S = {} THEN 0 ELSE CHOOSE x \in S : \A y \in S : y <= x

\* model.getPositionAt(offset): the offset is clamped into the buffer
GetPositionAt(b, offset) ==
    LET o  == Min(Max(offset, 0), Len(b))
        nl == NewlinesUpTo(b, o)
    IN  [lineNumber |-> Cardinality(nl) + 1, column |-> o - MaxOf(nl) + 1]

\* model.getOffsetAt(position): the position is clamped to a line of the
\* buffer and to a column of that line
GetOffsetAt(b, position) ==
    LET all   == NewlinesUpTo(b, Len(b))
        line  == Min(Max(position.lineNumber, 1), Cardinality(all) + 1)
        start == MaxOf({i \in all : Cardinality(NewlinesUpTo(b, i)) = line - 1})
        ends  == {i \in all : i > start}
        stop  == IF ends = {} THEN Len(b)
                 ELSE (CHOOSE i \in ends : \A j \in ends : i <= j) - 1
    IN  Min(start + Max(position.column, 1) - 1, stop)

\* one operation of executeEdits: the range between two positions of the
\* buffer as it is before the batch, and the text that replaces it
EditOp(b, startPos, endPos, text, force) ==
    [from  |-> GetOffsetAt(b, startPos),
     to    |-> GetOffsetAt(b, endPos),
     text  |-> text,
     force |-> force]

RECURSIVE ApplyEdits(_, _)
\* the buffer after the batch: every range refers to the buffer before the
\* batch, so the operations (ascending, not overlapping) are applied last first
ApplyEdits(b, edits) ==
    IF edits = <<>> THEN b
    ELSE LET e == edits[Len(edits)]
         IN  ApplyEdits(Take(b, e.from) \o e.text \o Drop(b, e.to),
                        Take(edits, Len(edits) - 1))

\* how far one operation moves a caret that was at offset c
CaretShift(e, c) ==
    IF e.from = e.to
    THEN IF c > e.from \/ (c = e.from /\ e.force) THEN Len(e.text) ELSE 0
    ELSE IF c >= e.to THEN Len(e.text) - (e.to - e.from)
         ELSE IF c > e.from THEN e.from + Len(e.text) - c
              ELSE 0

RECURSIVE SumShift(_, _)
SumShift(edits, c) ==
    IF edits = <<>> THEN 0 ELSE CaretShift(edits[1], c) + SumShift(Tail(edits), c)

\* the caret after the batch: the widget keeps it attached to its text
CaretAfterEdits(edits, c) ==
    c + SumShift(edits, c)

\* SumLen as it would be if it counted the segments, not their characters:
\* a faulty variant that C25 has to reject
SumLenCount(segs) ==
    Len(segs)

RECURSIVE SumLen(_)
\* the total length of the segments
SumLen(segs) ==
    IF segs = <<>> THEN 0 ELSE Len(segs[1]) + SumLen(Tail(segs))

RECURSIVE SegmentEdits(_, _, _)
\* the edits array built by the loop over the segments: each segment goes to
\* the position of the running insertOffset in the buffer as it is now
SegmentEdits(b, offset, segs) ==
    IF segs = <<>> THEN <<>>
    ELSE LET pos == GetPositionAt(b, offset)
         IN  <<EditOp(b, pos, pos, segs[1], TRUE)>>
             \o SegmentEdits(b, offset + Len(segs[1]), Tail(segs))

(***************************************************************************)
(* Bounds and inputs                                                       *)
(***************************************************************************)
\* clicks on the cancel button
MaxClicks ==
    1

\* completion events delivered for the run (2: a duplicated completion)
MaxCompletions ==
    2

\* things the user does in the editor during the run (a caret move or a
\* character typed)
MaxUserActions ==
    1

\* the stdout of the example: a preamble, the marker, the guidance sentence
\* and the output
MarkerStream ==
    <<"n", "o", "i", "s", "e", " ", "-", "-", "-", " ", "I", "N", "P", "U", "T", " ", "E", "N", "D", " ", "-", "-", "-", " ", "R", "e", "t", "u", "r", "n", " ", "o", "n", "l", "y", " ", "t", "h", "e", " ", "t", "r", "a", "n", "s", "f", "o", "r", "m", "e", "d", " ", "t", "e", "x", "t", ".", "\n", "H", "E", "L", "L", "O">>

\* a short stdout: the marker in lower case, a CR LF, output that ends in
\* white space
ShortStream ==
    <<"-", "-", "-", "i", "n", "p", "u", "t", " ", "e", "n", "d", "-", "-", "-", "\r", "\n", "H", "I", " ", "\n">>

\* a stdout whose output is longer than one segment of the insertion
LongStream ==
    <<"-", "-", "-", " ", "I", "N", "P", "U", "T", " ", "E", "N", "D", " ", "-", "-", "-", "\n", "a", "l", "p", "h", "a", " ", "b", "e", "t", "a", " ", "g", "a", "m", "m", "a", " ", "d", "e", "l", "t", "a", " ", "e", "p", "s", "i", "l", "o", "n">>

Streams ==
    {MarkerStream, ShortStream}

\* a stdout with a preamble that ends in the beginning of a marker, then the
\* marker and a short output
PreambleStream ==
    <<"n", "o", " ", "-", "-", " ", "-", "-", "-", " ", "I", "N", "P", "U", "T", " ", "E", "N", "D", " ", "-", "-", "-", "\n", "O", "K">>

\* n characters c
Repeat(c, n) ==
    [i \in 1..n |-> c]

\* "--- INPUT END ---" with so many blanks after the first dashes that the
\* match is exactly PendingWindow characters long
WideMarker ==
    DashLit \o Repeat(" ", PendingWindow - 15)
        \o <<"I", "N", "P", "U", "T", " ", "E", "N", "D", "-", "-", "-">>

\* a stdout with a short preamble, the wide marker and an output
WideStream ==
    Repeat("x", 20) \o WideMarker \o <<"\n", "O", "K">>

\* a stdout with a preamble longer than PendingWindow, the marker and an
\* output
LongPreambleStream ==
    Repeat("x", PendingWindow + 8)
        \o <<"-", "-", "-", " ", "I", "N", "P", "U", "T", " ", "E", "N", "D", " ", "-", "-", "-", "\n", "O", "K">>

WindowStreams ==
    {WideStream, LongPreambleStream}

\* the offsets at which the process may end a chunk of the two streams
\* above: in the preamble, around offset PendingWindow, inside the marker,
\* one before its end, at its end and behind it
WindowCuts ==
    {20, 300, 520, 531, 532, 536, 537, 538}

\* the offsets of ShortStream at which the interleaving specifications let
\* the process end a chunk: inside the marker, after it, between CR and LF,
\* inside the output and before its last white space
ShortCuts ==
    {5, 15, 16, 19, 20}

\* the output field of the completion payload
FencedOutput ==
    <<"BQ", "BQ", "BQ", "\n", " ", "B", "A", "R", " ", "\n", "BQ", "BQ", "BQ">>

Outputs ==
    {FencedOutput, <<>>}

\* an output that is longer than one segment of the insertion
LongOutput ==
    <<"a", "l", "p", "h", "a", " ", "b", "e", "t", "a", " ", "g", "a", "m", "m", "a", " ", "d", "e", "l", "t", "a", " ", "e", "p", "s", "i", "l", "o", "n", "\n">>

\* a stdout that ends before its marker is complete
NoMarkerStream ==
    SubSeq(ShortStream, 1, 14)

\* the error field of the completion payload
Errors ==
    {"exit 1", "killed"}

\* the buffer when the run starts
OrigBuffer ==
    <<"a", "b">>

\* editor.getSelection() when the run starts: offsets start <= end; the caret
\* is the end of the selection
Selections ==
    {r \in [start : 0..Len(OrigBuffer), end : 0..Len(OrigBuffer)] : r.start <= r.end}

(***************************************************************************)
(* The tab store (TabsStore) as functions of its state. A tab id tab-n is   *)
(* the number n, and 0 stands for null. The content field of a tab is the  *)
(* value of its editor, which App creates right after createTab.           *)
(***************************************************************************)
\* initialState of the store; no file or draft on disk, no draft timer,
\* quitApp not called, no handler run yet
InitialApp ==
    [tabs |-> <<>>, activeTabId |-> 0, nextTabId |-> 1,
     files |-> <<>>, drafts |-> {}, draftTimers |-> {}, quit |-> FALSE,
     call |-> [op |-> "none", tabId |-> 0, choice |-> "none", active |-> 0]]

\* createTab(name, path, content)
CreateTab(st, content) ==
    LET tab == [id |-> st.nextTabId, isDirty |-> FALSE,
                originalContent |-> content, content |-> content]
    IN  [st EXCEPT !.tabs = Append(@, tab),
                   !.activeTabId = st.nextTabId,
                   !.nextTabId = @ + 1]

\* CloseTab as it would be if activeTabId were left alone: a faulty variant
\* that C30 has to reject
CloseTabKeepsActive(st, tabId) ==
    LET Keep(t) == t.id # tabId
    IN  [st EXCEPT !.tabs = SelectSeq(@, Keep)]

\* closeTab(tabId): closingIndex and nextIndex count from 1 here
CloseTab(st, tabId) ==
    LET Keep(t)      == t.id # tabId
        tabs         == SelectSeq(st.tabs, Keep)
        closingIndex == CHOOSE k \in 1..Len(st.tabs) : st.tabs[k].id = tabId
        nextIndex    == Min(closingIndex, Len(tabs))
    IN  [st EXCEPT !.tabs = tabs,
                   !.activeTabId =
                       IF st.activeTabId = tabId
                       THEN IF Len(tabs) > 0 THEN tabs[nextIndex].id ELSE 0
                       ELSE @]

\* setActiveTab(tabId)
SetActiveTab(st, tabId) ==
    IF \E k \in 1..Len(st.tabs) : st.tabs[k].id = tabId
    THEN [st EXCEPT !.activeTabId = tabId]
    ELSE st

\* saveTab(tabId, content): updateTab puts a new tab object in the list
SaveTab(st, tabId, content) ==
    [st EXCEPT !.tabs =
        [k \in 1..Len(st.tabs) |->
            IF st.tabs[k].id = tabId
            THEN [st.tabs[k] EXCEPT !.isDirty = FALSE,
                                    !.originalContent = content]
            ELSE st.tabs[k]]]

\* closeAllTabs()
CloseAllTabs(st) ==
    [st EXCEPT !.tabs = <<>>, !.activeTabId = 0]

\* closeOtherTabs(keepTabId)
CloseOtherTabs(st, keepTabId) ==
    LET Kept(t) == t.id = keepTabId
    IN  IF SelectSeq(st.tabs, Kept) = <<>> THEN st
        ELSE [st EXCEPT !.tabs = <<Head(SelectSeq(st.tabs, Kept))>>,
                        !.activeTabId = keepTabId]

\* closeTabsToRight(tabId): idx counts from 1 here
CloseTabsToRight(st, tabId) ==
    LET found    == {k \in 1..Len(st.tabs) : st.tabs[k].id = tabId}
        idx      == CHOOSE k \in found : \A j \in found : k <= j
        activeId == IF /\ st.activeTabId # 0
                       /\ \E j \in (idx + 1)..Len(st.tabs) :
                              st.tabs[j].id = st.activeTabId
                    THEN tabId
                    ELSE st.activeTabId
    IN  IF found = {} THEN st
        ELSE [st EXCEPT !.tabs = SubSeq(@, 1, idx),
                        !.activeTabId = IF activeId # 0 THEN activeId
                                        ELSE tabId]

(***************************************************************************)
(* State                                                                   *)
(***************************************************************************)
VARIABLES
    stream,            \* what the process writes to stdout during the run
    output,            \* the output field its completion events carry
    sel,               \* the selection captured by runCodex
    faults,            \* TRUE when editor.executeEdits may throw
    cuts,              \* the offsets of stream at which a chunk may end
    buf, caret,        \* the editor: text and caret offset
    pc,                \* where runCodex is: idle, listenStream, listenDone,
                       \* exec, returned, failed
    proc,              \* the external process: none, running, exited
    pos,               \* the characters of stream emitted so far
    outBuf, insertedAny, insertOffset, programmaticEdit, userMoved,
    metaDone, pending, \* the closure variables of the run
    streamSub, doneSub,\* the two listen() subscriptions are live
    cursorSub,         \* cursorDisp is not disposed
    streamBox,         \* the status overlay is in the document
    cancelWired,       \* the click handler of btnCancel is registered
    cancelPending,     \* click handlers waiting for codexCancel
    cancelDone,        \* click handlers that have finished
    nComplete,         \* completion events delivered
    userEdits,         \* characters the user has typed
    userMoves,         \* caret moves the user has made
    alerts,            \* the alert() messages shown
    logged,            \* console.error calls of the catch of runCodex
    thrown,            \* executeEdits calls that threw
    escaped,           \* exceptions that left a listener uncaught
    unsubRuns,         \* runs of unsubs.forEach(fn => fn())
    removeCalls,       \* calls of document.body.removeChild(streamBox)
    doneRuns,          \* runs of the body of the codex-complete listener
    setPosCalls,       \* editor.setPosition calls made for the stream or
                       \* completion event delivered last
    dropped,           \* characters of pending discarded by the truncation
    otherInserts,      \* slices a second run on the same editor has inserted
    san,               \* the sanitizer on its own: input, results, calls
    seg,               \* chunkForInsert on its own: s, size, i, out, returned
    app,               \* the tab store, the files and drafts on disk, the
                       \* draft timers, whether quitApp was called, and the
                       \* handler of App or call of the store made last
    last               \* the step just taken

vars ==
    <<stream, output, sel, faults, cuts, buf, caret, pc, proc, pos, outBuf,
      insertedAny, insertOffset, programmaticEdit, userMoved, metaDone,
      pending, streamSub, doneSub, cursorSub, streamBox, cancelWired,
      cancelPending, cancelDone, nComplete, userEdits, userMoves, alerts,
      logged, thrown, escaped, unsubRuns, removeCalls, doneRuns, setPosCalls,
      dropped, otherInserts, san, seg, app, last>>

scenarioVars ==
    <<stream, output, sel, faults, cuts>>

editorVars ==
    <<buf, caret>>

closureVars ==
    <<outBuf, insertedAny, insertOffset, programmaticEdit, userMoved,
      metaDone, pending>>

listenerVars ==
    <<streamSub, doneSub, cursorSub, streamBox, cancelWired>>

countVars ==
    <<alerts, logged, thrown, escaped, unsubRuns, removeCalls, doneRuns,
      setPosCalls, dropped>>

userVars ==
    <<userEdits, userMoves>>

otherVars ==
    <<otherInserts>>

pureVars ==
    <<san, seg>>

\* everything but the two functions called on their own and the last step
runVars ==
    <<scenarioVars, otherVars, editorVars, closureVars, listenerVars,
      countVars, userVars, pc, proc, pos, cancelPending, cancelDone,
      nComplete>>

\* hasSelection: sel is not empty and the selected text is not empty
HasSelection ==
    sel.start < sel.end

\* sel as the Range object runCodex holds
SelStartPos ==
    GetPositionAt(OrigBuffer, sel.start)

SelEndPos ==
    GetPositionAt(OrigBuffer, sel.end)

\* the outcomes of one executeEdits call: it returns, or (faults) it throws
ThrowChoices ==
    IF faults THEN {FALSE, TRUE} ELSE {FALSE}

\* the record of a step
Step(op, ran, ok, err) ==
    [op |-> op, ran |-> ran, ok |-> ok, err |-> err]

\* the sanitizer has not been called on its own
NoSan ==
    [x |-> <<>>, once |-> <<>>, twice |-> <<>>, n |-> 0]

\* chunkForInsert is not running
NoSeg ==
    [s |-> <<>>, size |-> SegmentSize, i |-> 0, out |-> <<>>, done |-> TRUE]

\* the state when runCodex is called, but for the inputs of the run
InitRun ==
    /\ sel \in Selections
    /\ buf = OrigBuffer
    /\ caret = sel.end
    /\ pc = "idle"
    /\ proc = "none"
    /\ pos = 0
    /\ outBuf = <<>>
    /\ insertedAny = FALSE
    /\ insertOffset = 0
    /\ programmaticEdit = FALSE
    /\ userMoved = FALSE
    /\ metaDone = FALSE
    /\ pending = <<>>
    /\ streamSub = FALSE
    /\ doneSub = FALSE
    /\ cursorSub = FALSE
    /\ streamBox = FALSE
    /\ cancelWired = FALSE
    /\ cancelPending = 0
    /\ cancelDone = 0
    /\ nComplete = 0
    /\ userEdits = 0
    /\ userMoves = 0
    /\ alerts = <<>>
    /\ logged = 0
    /\ thrown = 0
    /\ escaped = 0
    /\ unsubRuns = 0
    /\ removeCalls = 0
    /\ doneRuns = 0
    /\ setPosCalls = 0
    /\ dropped = 0
    /\ otherInserts = 0
    /\ app = InitialApp
    /\ last = Step("init", FALSE, FALSE, "")

InitCommon ==
    /\ output \in Outputs
    /\ InitRun

\* the short stream in the chunks of ShortCuts, an editor that never throws
Init ==
    /\ stream = ShortStream
    /\ cuts = ShortCuts
    /\ faults = FALSE
    /\ san = NoSan
    /\ seg = NoSeg
    /\ InitCommon

\* the same with an executeEdits that may throw
InitFault ==
    /\ stream = ShortStream
    /\ cuts = ShortCuts
    /\ faults = TRUE
    /\ san = NoSan
    /\ seg = NoSeg
    /\ InitCommon

\* the long stream in every partition into chunks
InitLong ==
    /\ stream = LongStream
    /\ cuts = 1..Len(stream)
    /\ faults = FALSE
    /\ san = NoSan
    /\ seg = NoSeg
    /\ InitCommon

\* the stream with the preamble in every partition into chunks
InitPre ==
    /\ stream = PreambleStream
    /\ cuts = 1..Len(stream)
    /\ faults = FALSE
    /\ san = NoSan
    /\ seg = NoSeg
    /\ InitCommon

\* a stream that does not fit into the pending window, in the chunks of
\* WindowCuts
InitWindow ==
    /\ stream \in WindowStreams
    /\ cuts = WindowCuts
    /\ faults = FALSE
    /\ san = NoSan
    /\ seg = NoSeg
    /\ InitCommon

\* a stdout without a whole marker, in every partition into chunks, and a
\* short or a long output in the completion payload
InitFallback ==
    /\ stream = NoMarkerStream
    /\ cuts = 1..Len(stream)
    /\ faults = FALSE
    /\ san = NoSan
    /\ seg = NoSeg
    /\ output \in {FencedOutput, LongOutput}
    /\ InitRun

\* either stream in every partition into chunks
InitSplit ==
    /\ stream \in Streams
    /\ cuts = 1..Len(stream)
    /\ faults = FALSE
    /\ san = NoSan
    /\ seg = NoSeg
    /\ InitCommon

(***************************************************************************)
(* runCodex up to the call of the process (Tab.ts 507-691)                 *)
(***************************************************************************)
\* Start as it would be if codexExecStream were called before the two
\* awaits of listen: a faulty variant that C23 has to reject
StartExecFirst ==
    /\ pc = "idle"
    /\ pc' = "exec"
    /\ streamBox' = TRUE
    /\ insertOffset' = GetOffsetAt(buf, SelStartPos)
    /\ cursorSub' = TRUE
    /\ last' = Step("start", TRUE, TRUE, "")
    /\ UNCHANGED <<scenarioVars, otherVars, pureVars, app, editorVars, proc, pos, outBuf, insertedAny,
                   programmaticEdit, userMoved, metaDone, pending, streamSub,
                   doneSub, cancelWired, cancelPending, cancelDone, nComplete,
                   userVars, countVars>>

\* the synchronous start: the overlay is shown, the insertion point is the
\* start of the selection, the cursor listener is registered
Start ==
    /\ pc = "idle"
    /\ pc' = "listenStream"
    /\ streamBox' = TRUE
    /\ insertOffset' = GetOffsetAt(buf, SelStartPos)
    /\ cursorSub' = TRUE
    /\ last' = Step("start", TRUE, TRUE, "")
    /\ UNCHANGED <<scenarioVars, otherVars, pureVars, app, editorVars, proc, pos, outBuf, insertedAny,
                   programmaticEdit, userMoved, metaDone, pending, streamSub,
                   doneSub, cancelWired, cancelPending, cancelDone, nComplete,
                   userVars, countVars>>

\* await listen('codex-stream', ...) resolves; addUnsub
ListenStreamResolved ==
    /\ pc = "listenStream"
    /\ pc' = "listenDone"
    /\ streamSub' = TRUE
    /\ last' = Step("listenStream", TRUE, TRUE, "")
    /\ UNCHANGED <<scenarioVars, otherVars, pureVars, app, editorVars, proc, pos, closureVars, doneSub,
                   cursorSub, streamBox, cancelWired, cancelPending,
                   cancelDone, nComplete, userVars, countVars>>

\* await listen('codex-complete', ...) resolves; addUnsub; the click handler
\* of btnCancel is added; codexExecStream is called
ListenDoneResolved ==
    /\ pc = "listenDone"
    /\ pc' = "exec"
    /\ doneSub' = TRUE
    /\ cancelWired' = TRUE
    /\ last' = Step("listenDone", TRUE, TRUE, "")
    /\ UNCHANGED <<scenarioVars, otherVars, pureVars, app, editorVars, proc, pos, closureVars, streamSub,
                   cursorSub, streamBox, cancelPending, cancelDone, nComplete,
                   userVars, countVars>>

\* await tauriApi.codexExecStream(...) resolves: the process is launched
ExecResolved ==
    /\ pc = "exec"
    /\ pc' = "returned"
    /\ proc' = "running"
    /\ last' = Step("execResolved", TRUE, TRUE, "")
    /\ UNCHANGED <<scenarioVars, otherVars, pureVars, app, editorVars, pos, closureVars, listenerVars,
                   cancelPending, cancelDone, nComplete, userVars, countVars>>

\* catch (e) { console.error('AI action failed:', e); }
ExecCatch ==
    /\ logged' = logged + 1
    /\ UNCHANGED <<alerts, thrown, escaped, unsubRuns, removeCalls, doneRuns,
                   setPosCalls, dropped, listenerVars>>

\* await tauriApi.codexExecStream(...) rejects: no process runs
ExecRejected ==
    /\ pc = "exec"
    /\ pc' = "failed"
    /\ ExecCatch
    /\ last' = Step("execRejected", TRUE, FALSE, "")
    /\ UNCHANGED <<scenarioVars, otherVars, pureVars, app, editorVars, proc, pos, closureVars,
                   cancelPending, cancelDone, nComplete, userVars>>

(***************************************************************************)
(* The codex-stream listener (Tab.ts 580-630)                              *)
(***************************************************************************)
\* InsertResult as it would be if the caret were set to the position of
\* insertOffset as it was before the loop: a faulty variant that C11 has to
\* reject
InsertResultStaleCaret(b, c, off, moved, pe, text, thr) ==
    LET segs  == ChunkForInsert(text, SegmentSize)
        edits == SegmentEdits(b, off, segs)
        off2  == off + SumLen(segs)
        threw == thr /\ edits # <<>>
        b2    == IF threw THEN b ELSE ApplyEdits(b, edits)
        c1    == IF threw THEN c ELSE CaretAfterEdits(edits, c)
    IN  [buf              |-> b2,
         caret            |-> IF threw \/ moved THEN c1
                              ELSE GetOffsetAt(b2, GetPositionAt(b2, off)),
         insertOffset     |-> off2,
         programmaticEdit |-> IF threw THEN TRUE
                              ELSE IF edits # <<>> \/ ~moved THEN FALSE
                                   ELSE pe,
         setPos           |-> IF threw \/ moved THEN 0 ELSE 1,
         threw            |-> threw]

\* InsertResult as it would be without the test of userMoved before
\* editor.setPosition: a faulty variant that C12 has to reject
InsertResultAlwaysFollows(b, c, off, moved, pe, text, thr) ==
    LET segs  == ChunkForInsert(text, SegmentSize)
        edits == SegmentEdits(b, off, segs)
        off2  == off + SumLen(segs)
        threw == thr /\ edits # <<>>
        b2    == IF threw THEN b ELSE ApplyEdits(b, edits)
        c1    == IF threw THEN c ELSE CaretAfterEdits(edits, c)
    IN  [buf              |-> b2,
         caret            |-> IF threw THEN c1
                              ELSE GetOffsetAt(b2, GetPositionAt(b2, off2)),
         insertOffset     |-> off2,
         programmaticEdit |-> IF threw THEN TRUE ELSE FALSE,
         setPos           |-> IF threw THEN 0 ELSE 1,
         threw            |-> threw]

\* the segmented insertion of text at insertOffset (Tab.ts 619-627 and
\* 648-656): the edits array, one executeEdits call if it is not empty, the
\* caret set to insertOffset unless the user moved.  thr: executeEdits throws.
InsertResult(b, c, off, moved, pe, text, thr) ==
    LET segs  == ChunkForInsert(text, SegmentSize)
        edits == SegmentEdits(b, off, segs)
        off2  == off + SumLen(segs)
        threw == thr /\ edits # <<>>
        b2    == IF threw THEN b ELSE ApplyEdits(b, edits)
        c1    == IF threw THEN c ELSE CaretAfterEdits(edits, c)
    IN  [buf              |-> b2,
         caret            |-> IF threw \/ moved THEN c1
                              ELSE GetOffsetAt(b2, GetPositionAt(b2, off2)),
         insertOffset     |-> off2,
         programmaticEdit |-> IF threw THEN TRUE
                              ELSE IF edits # <<>> \/ ~moved THEN FALSE
                                   ELSE pe,
         setPos           |-> IF threw \/ moved THEN 0 ELSE 1,
         threw            |-> threw]

\* PendingAfter as it would be without the truncation: a faulty variant
\* that C15 has to reject
PendingAfterKeepAll(p1) ==
    IF metaDone THEN p1
    ELSE IF MarkerIndex(p1) # 0 THEN AfterMarker(p1, MarkerIndex(p1))
         ELSE p1

\* pending after the chunk was appended and the marker looked for
PendingAfter(p1) ==
    IF metaDone THEN p1
    ELSE IF MarkerIndex(p1) # 0 THEN AfterMarker(p1, MarkerIndex(p1))
         ELSE KeepTail(p1)

\* TextOut as it would be if the listener did not wait for the marker: a
\* faulty variant that C14 has to reject
TextOutNoWait(data) ==
    LET p1    == pending \o NormEol(data)
        p2    == PendingAfter(p1)
        raw   == IF p2 # <<>> THEN SanitizeAiChunk(p2) ELSE <<>>
    IN  IF insertedAny THEN raw ELSE TrimStart(raw)

\* textOut of the listener for the chunk data: empty when the listener
\* returns before it has a slice
TextOut(data) ==
    LET p1    == pending \o NormEol(data)
        found == metaDone \/ MarkerIndex(p1) # 0
        p2    == PendingAfter(p1)
        raw   == IF found /\ p2 # <<>> THEN SanitizeAiChunk(p2) ELSE <<>>
    IN  IF insertedAny THEN raw ELSE TrimStart(raw)

\* what the listener does with a slice that is not empty
OnSlice(textOut, thr) ==
    /\ outBuf' = outBuf \o textOut
    /\ IF HasSelection
       THEN /\ setPosCalls' = 0
            /\ UNCHANGED <<buf, caret, insertOffset, insertedAny,
                           programmaticEdit, thrown, escaped>>
       ELSE \E r \in {InsertResult(buf, caret, insertOffset, userMoved,
                                    programmaticEdit, textOut, thr)} :
                /\ buf' = r.buf
                /\ caret' = r.caret
                /\ insertOffset' = r.insertOffset
                /\ programmaticEdit' = r.programmaticEdit
                /\ insertedAny' = (insertedAny \/ ~r.threw)
                /\ setPosCalls' = r.setPos
                /\ thrown' = thrown + (IF r.threw THEN 1 ELSE 0)
                /\ escaped' = escaped + (IF r.threw THEN 1 ELSE 0)

\* PendingNext as it would be if pending were not cleared after the slice
\* is taken: a faulty variant that C26 has to reject
PendingNextKeepsSlice(p1, found) ==
    IF found /\ MarkerIndex(p1) = 0 THEN p1 ELSE PendingAfter(p1)

\* pending when the listener returns: the kept tail while the marker is
\* missing; empty once metaDone, the slice having gone to the sanitizer
PendingNext(p1, found) ==
    IF found THEN <<>> ELSE PendingAfter(p1)

\* the listener for a stdout event of this run that carries data
OnStream(data, thr) ==
    LET p1    == pending \o NormEol(data)
        found == metaDone \/ MarkerIndex(p1) # 0
    IN  /\ metaDone' = found
        /\ pending' = PendingNext(p1, found)
        /\ dropped' = dropped + (IF found THEN 0
                                 ELSE Len(p1) - Len(PendingAfter(p1)))
        /\ IF TextOut(data) = <<>>
           THEN /\ setPosCalls' = 0
                /\ UNCHANGED <<outBuf, buf, caret, insertOffset, insertedAny,
                               programmaticEdit, thrown, escaped>>
           ELSE OnSlice(TextOut(data), thr)
        /\ UNCHANGED userMoved

\* runId of this run, and of another run of runCodex
OwnRunId ==
    "run-a"

OtherRunId ==
    "run-b"

\* the payload of a codex-stream event
StreamPayload(rid, ch, data) ==
    [runId |-> rid, channel |-> ch, data |-> data]

\* StreamAccepts without the test of the runId: a faulty variant that C18
\* has to reject
StreamAcceptsAnyRun(p) ==
    /\ p.channel = "stdout"
    /\ p.data # <<>>

\* the listener goes on with the payload: it is of this run, on stdout, and
\* carries data (Tab.ts 582-584)
StreamAccepts(p) ==
    /\ p.runId = OwnRunId
    /\ p.channel = "stdout"
    /\ p.data # <<>>

\* the process writes the next k characters to stdout and the event is
\* delivered (events of one run arrive in the order they were emitted)
StreamEvent(k) ==
    /\ proc = "running"
    /\ pos + k <= Len(stream)
    /\ pos + k \in cuts \cup {Len(stream)}
    /\ pos' = pos + k
    /\ IF /\ streamSub
          /\ StreamAccepts(StreamPayload(OwnRunId, "stdout",
                                         SubSeq(stream, pos + 1, pos + k)))
       THEN \E thr \in ThrowChoices : OnStream(SubSeq(stream, pos + 1, pos + k), thr)
       ELSE /\ setPosCalls' = 0
            /\ UNCHANGED <<closureVars, editorVars, thrown, escaped, dropped>>
    /\ last' = Step("stream", streamSub, TRUE, "")
    /\ UNCHANGED <<scenarioVars, otherVars, pureVars, app, pc, proc, listenerVars, cancelPending,
                   cancelDone, nComplete, userVars, alerts, logged, unsubRuns,
                   removeCalls, doneRuns>>

(***************************************************************************)
(* The codex-complete listener (Tab.ts 633-679)                            *)
(***************************************************************************)
\* FinalText as it would be if the output field of the payload were taken
\* whenever it is not empty: a faulty variant that C24 has to reject
FinalTextPrefersOutput(o) ==
    NormEol(IF Len(o) > 0 THEN SanitizeAiChunk(o) ELSE outBuf)

\* finalText: the streamed text if there is any, else the sanitized output
FinalText(o) ==
    NormEol(IF Len(outBuf) > 0 THEN outBuf ELSE SanitizeAiChunk(o))

\* finalText.replace(/^\s+/, "").replace(/\s+$/, "")
Trimmed(o) ==
    TrimEnd(TrimStart(FinalText(o)))

\* hasSelection: one edit replaces sel by the trimmed text, the caret goes to
\* its end unless the user moved (Tab.ts 642-645)
ReplaceSelection(o, thr) ==
    LET edits == <<EditOp(buf, SelStartPos, SelEndPos, Trimmed(o), TRUE)>>
        b2    == IF thr THEN buf ELSE ApplyEdits(buf, edits)
        c1    == IF thr THEN caret ELSE CaretAfterEdits(edits, caret)
        endAt == GetPositionAt(b2, GetOffsetAt(b2, SelStartPos) + Len(Trimmed(o)))
    IN  [buf              |-> b2,
         caret            |-> IF thr \/ userMoved THEN c1 ELSE GetOffsetAt(b2, endAt),
         insertOffset     |-> insertOffset,
         programmaticEdit |-> thr,
         setPos           |-> IF thr \/ userMoved THEN 0 ELSE 1,
         threw            |-> thr]

\* text was streamed: the white space at the end of it is deleted from the
\* buffer before insertOffset (Tab.ts 657-669)
TrimStreamedTail(o, thr) ==
    LET trailing == TrailingSpace(FinalText(o))
        edits    == <<EditOp(buf, GetPositionAt(buf, insertOffset - trailing),
                             GetPositionAt(buf, insertOffset), <<>>, FALSE)>>
        b2       == IF thr THEN buf ELSE ApplyEdits(buf, edits)
        c1       == IF thr THEN caret ELSE CaretAfterEdits(edits, caret)
        off2     == insertOffset - trailing
    IN  IF trailing = 0
        THEN [buf |-> buf, caret |-> caret, insertOffset |-> insertOffset,
              programmaticEdit |-> programmaticEdit, setPos |-> 0,
              threw |-> FALSE]
        ELSE [buf              |-> b2,
              caret            |-> IF thr \/ userMoved THEN c1
                                   ELSE GetOffsetAt(b2, GetPositionAt(b2, off2)),
              insertOffset     |-> IF thr THEN insertOffset ELSE off2,
              programmaticEdit |-> thr,
              setPos           |-> IF thr \/ userMoved THEN 0 ELSE 1,
              threw            |-> thr]

\* the branch the listener takes when p.ok
SuccessResult(o, thr) ==
    IF HasSelection THEN ReplaceSelection(o, thr)
    ELSE IF Len(outBuf) = 0
         THEN InsertResult(buf, caret, insertOffset, userMoved,
                           programmaticEdit, Trimmed(o), thr)
         ELSE TrimStreamedTail(o, thr)

\* try { document.body.removeChild(streamBox) } catch {}
\* try { cursorDisp.dispose() } catch {}
RemoveIndicator ==
    /\ removeCalls' = removeCalls + 1
    /\ streamBox' = FALSE
    /\ cursorSub' = FALSE

\* p.ok: the final edit, then the overlay and the cursor listener go; an
\* exception of executeEdits leaves the listener before they do
DoneSuccess(thr) ==
    \E r \in {SuccessResult(output, thr)} :
        /\ buf' = r.buf
        /\ caret' = r.caret
        /\ insertOffset' = r.insertOffset
        /\ programmaticEdit' = r.programmaticEdit
        /\ setPosCalls' = r.setPos
        /\ IF r.threw
           THEN /\ thrown' = thrown + 1
                /\ escaped' = escaped + 1
                /\ UNCHANGED <<removeCalls, streamBox, cursorSub>>
           ELSE /\ RemoveIndicator
                /\ UNCHANGED <<thrown, escaped>>
        /\ UNCHANGED alerts

\* the text of the alert for the error err
FailureAlert(err) ==
    [text |-> "AI failed to run. Please ensure the Codex CLI is installed and available in PATH.",
     error |-> err]

\* DoneFailure as it would be without the test of p.ok: a faulty variant
\* that C9 has to reject
DoneFailureAsSuccess(err) ==
    DoneSuccess(FALSE)

\* !p.ok: the alert with the error, then the overlay and the cursor listener go
DoneFailure(err) ==
    /\ alerts' = Append(alerts, FailureAlert(err))
    /\ RemoveIndicator
    /\ setPosCalls' = 0
    /\ UNCHANGED <<buf, caret, insertOffset, programmaticEdit, thrown, escaped>>

\* unsubs.forEach(fn => fn())
Unsubscribe ==
    /\ unsubRuns' = unsubRuns + 1
    /\ streamSub' = FALSE
    /\ doneSub' = FALSE

\* the listener for a completion event of this run
OnDone(ok, err, thr) ==
    /\ Unsubscribe
    /\ doneRuns' = doneRuns + 1
    /\ IF ok THEN DoneSuccess(thr) ELSE DoneFailure(err)
    /\ UNCHANGED <<outBuf, insertedAny, userMoved, metaDone, pending,
                   cancelWired, logged, dropped>>

\* the payload of a codex-complete event
DonePayload(rid, ok, err) ==
    [runId |-> rid, ok |-> ok, output |-> output, error |-> err]

\* the payloads a completion event of the run rid may carry
DonePayloads(rid) ==
    {DonePayload(rid, ok, err) : ok \in BOOLEAN, err \in Errors}

\* the listener goes on with the payload: it is of this run (Tab.ts 635)
DoneAccepts(p) ==
    p.runId = OwnRunId

\* the completion event of the run is delivered (at most MaxCompletions times)
CompleteEvent(ok, err) ==
    /\ proc \in {"running", "exited"}
    /\ nComplete < MaxCompletions
    /\ nComplete' = nComplete + 1
    /\ proc' = "exited"
    /\ IF doneSub /\ DoneAccepts(DonePayload(OwnRunId, ok, err))
       THEN \E thr \in ThrowChoices : OnDone(ok, err, thr)
       ELSE /\ setPosCalls' = 0
            /\ UNCHANGED <<closureVars, editorVars, listenerVars, alerts,
                           logged, thrown, escaped, unsubRuns, removeCalls,
                           doneRuns, dropped>>
    /\ last' = Step("complete", doneSub, ok, IF ok THEN "" ELSE err)
    /\ UNCHANGED <<scenarioVars, otherVars, pureVars, app, pc, pos, cancelPending, cancelDone, userVars>>

(***************************************************************************)
(* The click handler of btnCancel (Tab.ts 682-686)                         *)
(***************************************************************************)
\* the click: the handler calls tauriApi.codexCancel(runId) and waits
CancelClick ==
    /\ cancelWired
    /\ streamBox
    /\ cancelPending + cancelDone < MaxClicks
    /\ cancelPending' = cancelPending + 1
    /\ last' = Step("cancelClick", TRUE, TRUE, "")
    /\ UNCHANGED <<scenarioVars, otherVars, pureVars, app, editorVars, pc, proc, pos, closureVars,
                   listenerVars, cancelDone, nComplete, userVars, countVars>>

\* what the handler does once codexCancel has returned or thrown
AfterCancel ==
    /\ removeCalls' = removeCalls + 1
    /\ streamBox' = FALSE
    /\ Unsubscribe
    /\ UNCHANGED <<cursorSub, cancelWired, alerts, logged, thrown, escaped,
                   doneRuns, setPosCalls, dropped>>

\* codexCancel returns: the process is gone, the handler goes on
CancelReturn ==
    /\ cancelPending > 0
    /\ cancelPending' = cancelPending - 1
    /\ cancelDone' = cancelDone + 1
    /\ proc' = IF proc = "running" THEN "exited" ELSE proc
    /\ AfterCancel
    /\ last' = Step("cancelReturn", TRUE, TRUE, "")
    /\ UNCHANGED <<scenarioVars, otherVars, pureVars, app, editorVars, pc, pos, closureVars, nComplete,
                   userVars>>

(***************************************************************************)
(* The user, while the run shows its overlay                               *)
(***************************************************************************)
\* editor.onDidChangeCursorPosition(() => { if (!programmaticEdit) userMoved = true; })
CursorListener ==
    userMoved' = (userMoved \/ (cursorSub /\ ~programmaticEdit))

\* the user puts the caret at the start or at the end of the buffer
UserMove(target) ==
    /\ cursorSub
    /\ streamBox
    /\ userEdits + userMoves < MaxUserActions
    /\ target # caret
    /\ caret' = target
    /\ userMoves' = userMoves + 1
    /\ CursorListener
    /\ last' = Step("userMove", TRUE, TRUE, "")
    /\ UNCHANGED <<scenarioVars, otherVars, pureVars, app, buf, pc, proc, pos, outBuf, insertedAny,
                   insertOffset, programmaticEdit, metaDone, pending,
                   listenerVars, cancelPending, cancelDone, nComplete,
                   userEdits, countVars>>

\* the user types one character at the caret
UserType ==
    /\ cursorSub
    /\ streamBox
    /\ userEdits + userMoves < MaxUserActions
    /\ buf' = Take(buf, caret) \o <<"u">> \o Drop(buf, caret)
    /\ caret' = caret + 1
    /\ userEdits' = userEdits + 1
    /\ CursorListener
    /\ last' = Step("userType", TRUE, TRUE, "")
    /\ UNCHANGED <<scenarioVars, otherVars, pureVars, app, pc, proc, pos, outBuf, insertedAny,
                   insertOffset, programmaticEdit, metaDone, pending,
                   listenerVars, cancelPending, cancelDone, nComplete,
                   userMoves, countVars>>

(***************************************************************************)
(* Events of other runs, and a second run on the same editor               *)
(***************************************************************************)
\* the data of the events that are not stdout events of this run: one
\* character, or a whole stdout like the one of this run
ForeignData ==
    {<<"Z">>, stream}

\* the payloads of those events: on stderr, or with the runId of another run
ForeignPayloads ==
    {StreamPayload(rid, ch, data) :
         rid \in {OwnRunId, OtherRunId}, ch \in {"stdout", "stderr"},
         data \in ForeignData}
        \ {StreamPayload(OwnRunId, "stdout", data) : data \in ForeignData}

\* a codex-stream event that is on stderr or of another run reaches the
\* listener of this run
ForeignStreamEvent(p) ==
    /\ pc # "idle"
    /\ IF streamSub /\ StreamAccepts(p)
       THEN \E thr \in ThrowChoices : OnStream(p.data, thr)
       ELSE /\ setPosCalls' = 0
            /\ UNCHANGED <<closureVars, editorVars, thrown, escaped, dropped>>
    /\ last' = Step("foreignStream", streamSub, TRUE, "")
    /\ UNCHANGED <<scenarioVars, otherVars, pureVars, app, pc, proc, pos,
                   listenerVars, cancelPending, cancelDone, nComplete,
                   userVars, alerts, logged, unsubRuns, removeCalls, doneRuns>>

\* a codex-complete event of another run reaches the listener of this run
ForeignCompleteEvent(ok, err) ==
    /\ pc # "idle"
    /\ IF doneSub /\ DoneAccepts(DonePayload(OtherRunId, ok, err))
       THEN \E thr \in ThrowChoices : OnDone(ok, err, thr)
       ELSE /\ setPosCalls' = 0
            /\ UNCHANGED <<closureVars, editorVars, listenerVars, alerts,
                           logged, thrown, escaped, unsubRuns, removeCalls,
                           doneRuns, dropped>>
    /\ last' = Step("foreignComplete", doneSub, ok, IF ok THEN "" ELSE err)
    /\ UNCHANGED <<scenarioVars, otherVars, pureVars, app, pc, proc, pos,
                   cancelPending, cancelDone, nComplete, userVars>>

\* slices the second run inserts
MaxOtherInserts ==
    1

\* the slice of one stream event of the second run
OtherSlice ==
    <<"Z">>

\* A second run of runCodex on the same editor, started at the same selection
\* as this one, handles a stream event of its own: the segmented insertion at
\* its own insertOffset under its own programmaticEdit flag (moved: its own
\* userMoved).  The editor reports a change of the cursor position to every
\* listener, the cursorDisp listener of this run included.
OtherSessionInsert(moved) ==
    /\ cursorSub
    /\ ~HasSelection
    /\ otherInserts < MaxOtherInserts
    /\ LET r == InsertResult(buf, caret,
                             sel.start + otherInserts * Len(OtherSlice),
                             moved, FALSE, OtherSlice, FALSE)
       IN  /\ buf' = r.buf
           /\ caret' = r.caret
           /\ userMoved' = IF r.caret # caret
                           THEN userMoved \/ (cursorSub /\ ~programmaticEdit)
                           ELSE userMoved
    /\ otherInserts' = otherInserts + 1
    /\ last' = Step("otherInsert", TRUE, TRUE, "")
    /\ UNCHANGED <<scenarioVars, pureVars, app, pc, proc, pos, outBuf, insertedAny,
                   insertOffset, programmaticEdit, metaDone, pending,
                   listenerVars, cancelPending, cancelDone, nComplete,
                   userVars, countVars>>

(***************************************************************************)
(* The sanitizer called on its own (Tab.ts 283-304)                        *)
(***************************************************************************)
\* the pieces the inputs are made of: the beginning of an escape sequence, a
\* whole one, its last character, a fence, the line ends, a letter, a
\* separator
SanTokens ==
    {<<"ESC", "[">>, <<"ESC", "[", "0", "m">>, <<"m">>, FenceLit,
     <<"\r">>, <<"\n">>, <<"a">>, DashLit}

\* pieces per input
MaxTokens ==
    3

RECURSIVE TokenStrings(_)
\* the strings made of at most n pieces
TokenStrings(n) ==
    IF n = 0 THEN {<<>>}
    ELSE TokenStrings(n - 1)
             \cup {s \o t : s \in TokenStrings(n - 1), t \in SanTokens}

SanInputs ==
    TokenStrings(MaxTokens)

InitSanitize ==
    /\ san \in [x : SanInputs, once : {<<>>}, twice : {<<>>}, n : {0}]
    /\ seg = NoSeg
    /\ stream = <<>>
    /\ cuts = {}
    /\ faults = FALSE
    /\ output = <<>>
    /\ InitRun
    /\ sel = [start |-> 0, end |-> 0]

\* sanitizeAiChunk(x)
SanitizeOnce ==
    /\ san.n = 0
    /\ san' = [san EXCEPT !.once = SanitizeAiChunk(san.x), !.n = 1]
    /\ last' = Step("sanitize", TRUE, TRUE, "")
    /\ UNCHANGED <<runVars, seg, app>>

\* sanitizeAiChunk(sanitizeAiChunk(x))
SanitizeTwice ==
    /\ san.n = 1
    /\ san' = [san EXCEPT !.twice = SanitizeAiChunk(san.once), !.n = 2]
    /\ last' = Step("sanitize", TRUE, TRUE, "")
    /\ UNCHANGED <<runVars, seg, app>>

(***************************************************************************)
(* chunkForInsert called on its own, one iteration of its loop per step    *)
(* (Tab.ts 267-280)                                                        *)
(***************************************************************************)
\* the longest input
MaxSegLen ==
    5

\* the largest size argument
MaxSegSize ==
    4

\* the strings of at most MaxSegLen characters over a letter, a blank and a
\* line end
SegInputs ==
    UNION {[1..n -> {"a", " ", "\n"}] : n \in 0..MaxSegLen}

InitSegment ==
    /\ seg \in [s : SegInputs, size : 1..MaxSegSize, i : {0}, out : {<<>>},
                 done : {FALSE}]
    /\ san = NoSan
    /\ stream = <<>>
    /\ cuts = {}
    /\ faults = FALSE
    /\ output = <<>>
    /\ InitRun
    /\ sel = [start |-> 0, end |-> 0]

\* SegmentSlice as it would be if it left out the last character of the
\* window: a faulty variant that C21 has to reject
SegmentSliceShort(s, i, cut) ==
    SubSeq(s, i + 1, cut - 1)

\* s.slice(i, cut)
SegmentSlice(s, i, cut) ==
    SubSeq(s, i + 1, cut)

\* one iteration of while (i < s.length): out.push(s.slice(i, cut)); i = cut
SegmentStep ==
    /\ ~seg.done
    /\ seg.i < Len(seg.s)
    /\ \E cut \in {CutAt(seg.s, seg.i, seg.size)} :
           seg' = [seg EXCEPT !.out = Append(@, SegmentSlice(seg.s, seg.i, cut)),
                              !.i = cut]
    /\ last' = Step("segment", TRUE, TRUE, "")
    /\ UNCHANGED <<runVars, san, app>>

\* the loop ends: return out
SegmentReturn ==
    /\ ~seg.done
    /\ ~(seg.i < Len(seg.s))
    /\ seg' = [seg EXCEPT !.done = TRUE]
    /\ last' = Step("segmentReturn", TRUE, TRUE, "")
    /\ UNCHANGED <<runVars, san, app>>

(***************************************************************************)
(* App: tabs, files and drafts (main.ts 1390-1419, 1653-1746), and the     *)
(* store called on its own                                                 *)
(***************************************************************************)
\* the most tabs App creates
MaxTabs ==
    2

\* the most tabs created when the store is called on its own
MaxStoreTabs ==
    4

\* the largest content: a content is a number, 0 that of a file when opened
MaxContent ==
    1

InitApp ==
    /\ stream = <<>>
    /\ cuts = {}
    /\ faults = FALSE
    /\ output = <<>>
    /\ san = NoSan
    /\ seg = NoSeg
    /\ InitRun
    /\ sel = [start |-> 0, end |-> 0]

\* saveActiveFile(): the active tab has a path and an editor, the write
\* succeeds
SaveActiveFile(a) ==
    LET act == {k \in 1..Len(a.tabs) : a.tabs[k].id = a.activeTabId}
        tab == a.tabs[CHOOSE k \in act : TRUE]
    IN  IF act = {} THEN a
        ELSE [SaveTab(a, tab.id, tab.content)
                 EXCEPT !.files = (tab.id :> tab.content) @@ @,
                        !.drafts = @ \ {tab.id}]

\* the user changes the text of the active tab to content: the editor's
\* listener calls setTabContent (Tab.ts 428-431) and App.onContentChanged
\* arms the draft timer of the tab again
ContentChanged(content) ==
    /\ ~app.quit
    /\ \E k \in 1..Len(app.tabs) :
           /\ app.tabs[k].id = app.activeTabId
           /\ app.tabs[k].content # content
           /\ app' = [app EXCEPT
                         !.tabs[k].content = content,
                         !.tabs[k].isDirty =
                             (content # app.tabs[k].originalContent),
                         !.draftTimers = @ \cup {app.activeTabId},
                         !.call = [op |-> "contentChanged",
                                   tabId |-> app.activeTabId,
                                   choice |-> "none",
                                   active |-> app.activeTabId]]
    /\ last' = Step("app", TRUE, TRUE, "")
    /\ UNCHANGED <<runVars, pureVars>>

\* 400 ms after the change the timer of tab tabId fires: the draft file of
\* the tab is written
DraftTimerFires(tabId) ==
    /\ ~app.quit
    /\ tabId \in app.draftTimers
    /\ app' = [app EXCEPT !.draftTimers = @ \ {tabId},
                          !.drafts = @ \cup {tabId},
                          !.call = [op |-> "draftTimer", tabId |-> tabId,
                                    choice |-> "none",
                                    active |-> app.activeTabId]]
    /\ last' = Step("app", TRUE, TRUE, "")
    /\ UNCHANGED <<runVars, pureVars>>

\* App.closeTab(tabId) with the answer choice to askUnsavedSingle ("none"
\* when the tab is not dirty and nothing is asked)
AppCloseTab(tabId, choice) ==
    /\ ~app.quit
    /\ \E k \in 1..Len(app.tabs) :
           /\ app.tabs[k].id = tabId
           /\ (choice = "none") = ~app.tabs[k].isDirty
    /\ \E saved \in {IF choice = "save" THEN SaveActiveFile(app) ELSE app} :
           app' = [(IF choice = "cancel" THEN app
                    ELSE [CloseTab(saved, tabId)
                            EXCEPT !.drafts = @ \ {tabId}])
                     EXCEPT !.call = [op |-> "closeTab", tabId |-> tabId,
                                      choice |-> choice,
                                      active |-> app.activeTabId]]
    /\ last' = Step("app", TRUE, TRUE, "")
    /\ UNCHANGED <<runVars, pureVars>>

\* handleQuitRequest() with the answer choice to askUnsavedMulti ("none"
\* when no tab is dirty and nothing is asked); dirty holds the tab objects
\* as they were when it was computed
HandleQuitRequest(choice) ==
    LET IsDirty(t) == t.isDirty
        dirty      == SelectSeq(app.tabs, IsDirty)
        RECURSIVE SaveEach(_, _)
        SaveEach(a, rest) ==
            IF rest = <<>> THEN [a EXCEPT !.quit = TRUE]
            ELSE LET a1 == SaveActiveFile(SetActiveTab(a, Head(rest).id))
                 IN  IF Head(rest).isDirty THEN a1
                     ELSE SaveEach(a1, Tail(rest))
    IN  /\ ~app.quit
        /\ (choice = "none") = (dirty = <<>>)
        /\ \E r \in {CASE choice = "none"    -> [app EXCEPT !.quit = TRUE]
                        [] choice = "cancel"  -> app
                        [] choice = "save"    -> SaveEach(app, dirty)
                        [] choice = "discard" -> [app EXCEPT !.drafts = {},
                                                            !.quit = TRUE]} :
               app' = [r EXCEPT !.call = [op |-> "quit", tabId |-> 0,
                                          choice |-> choice,
                                          active |-> app.activeTabId]]
        /\ last' = Step("app", TRUE, TRUE, "")
        /\ UNCHANGED <<runVars, pureVars>>

(***************************************************************************)
(* Specifications                                                          *)
(***************************************************************************)
Next ==
    \/ Start
    \/ ListenStreamResolved
    \/ ListenDoneResolved
    \/ ExecResolved
    \/ ExecRejected
    \/ \E k \in 1..Len(stream) : StreamEvent(k)
    \/ \E p \in DonePayloads(OwnRunId) : CompleteEvent(p.ok, p.error)
    \/ CancelClick
    \/ CancelReturn
    \/ \E target \in {0, Len(buf)} : UserMove(target)
    \/ UserType

\* the run without the user: the process, its events and the listeners
NextSplit ==
    \/ Start
    \/ ListenStreamResolved
    \/ ListenDoneResolved
    \/ ExecResolved
    \/ \E k \in 1..Len(stream) : StreamEvent(k)
    \/ \E p \in DonePayloads(OwnRunId) : CompleteEvent(p.ok, p.error)

\* the run, the events of other runs and a second run on the same editor
NextTwo ==
    \/ NextSplit
    \/ \E p \in ForeignPayloads : ForeignStreamEvent(p)
    \/ \E p \in DonePayloads(OtherRunId) : ForeignCompleteEvent(p.ok, p.error)
    \/ \E moved \in BOOLEAN : OtherSessionInsert(moved)

\* openFile(path) (createTab and createEditor with the content of the
\* file), a click on a tab (setActiveTab), a change of the text, a draft
\* timer, App.closeTab and handleQuitRequest with each answer to the
\* question about unsaved changes
NextApp ==
    \/ /\ ~app.quit
       /\ app.nextTabId <= MaxTabs
       /\ app' = [CreateTab(app, 0)
                     EXCEPT !.files = (app.nextTabId :> 0) @@ @,
                            !.call = [op |-> "openFile",
                                      tabId |-> app.nextTabId,
                                      choice |-> "none",
                                      active |-> app.activeTabId]]
       /\ last' = Step("app", TRUE, TRUE, "")
       /\ UNCHANGED <<runVars, pureVars>>
    \/ \E tabId \in 1..MaxTabs :
           /\ ~app.quit
           /\ tabId # app.activeTabId
           /\ \E k \in 1..Len(app.tabs) : app.tabs[k].id = tabId
           /\ app' = [SetActiveTab(app, tabId)
                         EXCEPT !.call = [op |-> "setActiveTab",
                                          tabId |-> tabId, choice |-> "none",
                                          active |-> app.activeTabId]]
           /\ last' = Step("app", TRUE, TRUE, "")
           /\ UNCHANGED <<runVars, pureVars>>
    \/ \E content \in 0..MaxContent : ContentChanged(content)
    \/ \E tabId \in 1..MaxTabs : DraftTimerFires(tabId)
    \/ \E tabId \in 1..MaxTabs :
           \E choice \in {"none", "save", "discard", "cancel"} :
               AppCloseTab(tabId, choice)
    \/ \E choice \in {"none", "save", "discard", "cancel"} :
           HandleQuitRequest(choice)

\* one call of the store: createTab, or an operation op with the argument
\* tabId, which need not be the id of a tab
NextStore ==
    \/ /\ app.nextTabId <= MaxStoreTabs
       /\ app' = [CreateTab(app, 0)
                     EXCEPT !.call = [op |-> "createTab", tabId |-> 0,
                                      choice |-> "none",
                                      active |-> app.activeTabId]]
       /\ last' = Step("store", TRUE, TRUE, "")
       /\ UNCHANGED <<runVars, pureVars>>
    \/ \E op \in {"closeTab", "setActiveTab", "closeAllTabs",
                   "closeOtherTabs", "closeTabsToRight"} :
           \E tabId \in 1..(MaxStoreTabs + 1) :
               /\ \E st \in {CASE op = "closeTab" -> CloseTab(app, tabId)
                                [] op = "setActiveTab" ->
                                       SetActiveTab(app, tabId)
                                [] op = "closeAllTabs" -> CloseAllTabs(app)
                                [] op = "closeOtherTabs" ->
                                       CloseOtherTabs(app, tabId)
                                [] op = "closeTabsToRight" ->
                                       CloseTabsToRight(app, tabId)} :
                      app' = [st EXCEPT !.call = [op |-> op, tabId |-> tabId,
                                                  choice |-> "none",
                                                  active |-> app.activeTabId]]
               /\ last' = Step("store", TRUE, TRUE, "")
               /\ UNCHANGED <<runVars, pureVars>>

NextSegment ==
    \/ SegmentStep
    \/ SegmentReturn

NextSanitize ==
    \/ SanitizeOnce
    \/ SanitizeTwice

\* every interleaving of the run, the cancel button and the user
Spec ==
    Init /\ [][Next]_vars

\* the same when executeEdits may throw
SpecFault ==
    InitFault /\ [][Next]_vars

\* the run among the events and the edits of a second run
SpecTwo ==
    Init /\ [][NextTwo]_vars

\* every partition of the stdout of the run into chunks
SpecSplit ==
    InitSplit /\ [][NextSplit]_vars

\* every partition of a stdout with a preamble before the marker
SpecPre ==
    InitPre /\ [][NextSplit]_vars

\* a stdout that does not fit into the pending window
SpecWindow ==
    InitWindow /\ [][NextSplit]_vars

\* a run whose stdout never completes the marker
SpecFallback ==
    InitFallback /\ [][NextSplit]_vars

\* the sanitizer applied once and twice to every input
SpecSanitize ==
    InitSanitize /\ [][NextSanitize]_vars

\* the handlers of App in any order
SpecApp ==
    InitApp /\ [][NextApp]_vars

\* the operations of the store in any order, with any argument
SpecStore ==
    InitApp /\ [][NextStore]_vars

\* chunkForInsert on every input; the loop is synchronous code, so it
\* goes on while it can
SpecSegment ==
    InitSegment /\ [][NextSegment]_vars /\ WF_vars(NextSegment)

\* every partition of a stdout with a long output
SpecLong ==
    InitLong /\ [][NextSplit]_vars

(***************************************************************************)
(* Properties                                                              *)
(***************************************************************************)
\* the run has ended: its completion was handled or a cancel has finished
Ended ==
    doneRuns > 0 \/ cancelDone > 0

\* the user has clicked cancel
CancelRequested ==
    cancelPending + cancelDone > 0

\* the buffer with text put at the offset the run captured at its start
InsertedAtStart(text) ==
    Take(OrigBuffer, sel.start) \o text \o Drop(OrigBuffer, sel.start)

\* the buffer with the selection replaced by text
SelectionReplacedBy(text) ==
    Take(OrigBuffer, sel.start) \o text \o Drop(OrigBuffer, sel.end)

\* the slice the listener has for the whole of s delivered as the first and
\* only chunk of a run
WholeChunkSlice(s) ==
    LET p1 == NormEol(s)
    IN  IF MarkerIndex(p1) = 0 THEN <<>>
        ELSE TrimStart(SanitizeAiChunk(AfterMarker(p1, MarkerIndex(p1))))

\* C1: once the user has clicked cancel, no stream event and no completion
\* event of the run edits the buffer or moves the caret, also while the
\* codexCancel call of the click handler has not returned yet.
C1_NoEditAfterCancel ==
    [][(CancelRequested /\ last'.op \in {"stream", "complete"})
           => (buf' = buf /\ caret' = caret)]_vars

\* C2: in a run without a selection and without user edits, after every
\* slice applied by a stream event the buffer is the original text with all
\* the text inserted so far as one block at the offset captured at the start,
\* and after the completion fallback it is the original text with the trimmed
\* output as one block there.
C2_InsertedBlockContiguous ==
    /\ (~HasSelection /\ userEdits = 0 /\ last.op = "stream" /\ last.ran)
           => buf = InsertedAtStart(outBuf)
    /\ (~HasSelection /\ userEdits = 0 /\ last.op = "complete" /\ last.ran
            /\ last.ok /\ outBuf = <<>>)
           => buf = InsertedAtStart(Trimmed(output))

\* C3: when the example stream (preamble, marker, guidance sentence, output)
\* has been delivered completely, in whatever chunks, the slices handed to the
\* inserter add up to what the stream gives as one single chunk.
C3_SplitSameAsWhole ==
    (stream = MarkerStream /\ pos = Len(stream))
        => outBuf = WholeChunkSlice(stream)

\* C4: in a run with a selection and without user edits, after a completion
\* with ok = true the buffer is the original one with the selection replaced
\* by the sanitized and trimmed output of the completion payload, whatever
\* was streamed before.
C4_SelectionReplacedByOutput ==
    (HasSelection /\ userEdits = 0 /\ last.op = "complete" /\ last.ran /\ last.ok)
        => buf = SelectionReplacedBy(TrimEnd(TrimStart(NormEol(SanitizeAiChunk(output)))))

\* C5: in a run with a selection a stream event changes neither the buffer,
\* the caret, insertOffset, insertedAny nor the output accumulator.
C5_SelectionStreamDoesNothing ==
    [][(HasSelection /\ last'.op = "stream")
           => UNCHANGED <<buf, caret, insertOffset, insertedAny, outBuf>>]_vars

\* C6: when a run has ended (completion handled or cancel finished), its
\* stream, completion and cursor listeners are released and its overlay is
\* removed.
C6_EndedSessionReleased ==
    Ended => (~streamSub /\ ~doneSub /\ ~cursorSub /\ ~streamBox)

\* C7: when a run has ended, the two subscriptions were released once, the
\* overlay was removed once, and the completion was handled at most once.
C7_TeardownOnce ==
    Ended => (unsubRuns = 1 /\ removeCalls = 1 /\ doneRuns <= 1)

\* C8: when the call that starts the process has failed, the overlay is
\* removed, both subscriptions are released and a notification was shown.
C8_LaunchFailureCleansUp ==
    pc = "failed" => (~streamBox /\ ~streamSub /\ ~doneSub /\ alerts # <<>>)

\* C9: the handling of a completion with ok = false edits nothing and moves
\* no caret (what was streamed stays as it is), shows an alert that carries
\* the error of the payload, and removes the overlay.
C9_FailureLeavesBuffer ==
    [][(last'.op = "complete" /\ last'.ran /\ ~last'.ok)
           => /\ buf' = buf
              /\ caret' = caret
              /\ insertOffset' = insertOffset
              /\ alerts' = Append(alerts, FailureAlert(last'.err))
              /\ ~streamBox']_vars

\* a completion with ok = false was handled after text had been streamed
\* into the buffer
C9_Witness ==
    /\ last.op = "complete" /\ last.ran /\ ~last.ok
    /\ ~HasSelection
    /\ Len(outBuf) > 0
    /\ buf # OrigBuffer
    /\ alerts # <<>>

\* C10: when executeEdits has thrown in a listener of the run, nothing has
\* escaped the listener, a notification was shown, the overlay is removed and
\* the listeners are released.
C10_EditExceptionCaught ==
    thrown > 0
        => (escaped = 0 /\ alerts # <<>> /\ ~streamBox /\ ~streamSub
            /\ ~doneSub /\ ~cursorSub)

\* C11: in a run without a selection in which the user has neither moved the
\* caret nor typed, after every stream event that put text into the buffer
\* the caret is at the offset captured at the start plus the length of all
\* the text the run has inserted so far.
C11_CaretFollowsInsertion ==
    [][(/\ last'.op = "stream" /\ last'.ran
        /\ ~HasSelection /\ userMoves' = 0 /\ userEdits' = 0
        /\ buf' # buf)
           => caret' = sel.start + (Len(buf') - Len(OrigBuffer))]_vars

\* the second insertion of such a run: "HI" and then a blank were inserted
\* in front of the original text and the caret is behind them
C11_Witness ==
    /\ last.op = "stream" /\ last.ran
    /\ ~HasSelection /\ userMoves = 0 /\ userEdits = 0
    /\ sel.start = 0
    /\ pos = 20
    /\ buf = <<"H", "I", " ">> \o OrigBuffer
    /\ caret = 3

\* C12: once userMoved is true it stays true, and from then on no stream
\* event and no completion event of the run calls editor.setPosition: the
\* listeners only edit the text.
C12_UserMovedSticks ==
    [][userMoved
           => /\ userMoved'
              /\ last'.op \in {"stream", "complete"} => setPosCalls' = 0]_vars

\* the user has put the caret at the start of the buffer, and the stream
\* event just handled inserted the rest of the output behind "ab" without a
\* setPosition call: the caret is where the user left it
C12_Witness ==
    /\ userMoved /\ userMoves = 1
    /\ last.op = "stream" /\ last.ran
    /\ sel.start = 2 /\ sel.end = 2
    /\ pos = Len(stream)
    /\ buf = OrigBuffer \o <<"H", "I", " ", "\n">>
    /\ setPosCalls = 0
    /\ caret = 0

\* C13: userMoved becomes true only in a step in which the user changes the
\* cursor: no edit and no caret move made by a listener of this run, and none
\* made by a second run on the same editor, sets it.
C13_OnlyUserSetsUserMoved ==
    [][(userMoved' /\ ~userMoved) => last'.op \in {"userMove", "userType"}]_vars

\* C14: a stream event handled while the stdout received so far does not
\* contain the whole boundary marker yields no slice and edits nothing: the
\* output accumulator, the buffer and the caret stay as they are and the
\* boundary is not found, however the preamble and the marker are cut.
C14_NothingBeforeMarker ==
    [][(/\ last'.op = "stream" /\ last'.ran
        /\ MarkerIndex(SubSeq(stream, 1, pos')) = 0)
           => /\ outBuf' = outBuf
              /\ buf' = buf
              /\ caret' = caret
              /\ ~metaDone']_vars

\* the preamble and all of the marker but its last three characters have
\* been handled, in two events or more
C14_Witness ==
    /\ last.op = "stream" /\ last.ran
    /\ stream = PreambleStream
    /\ pos = 20
    /\ pending = SubSeq(PreambleStream, 1, 20)
    /\ ~metaDone
    /\ outBuf = <<>>
    /\ buf = OrigBuffer

\* C15: while the boundary has not been found the pending tail the run keeps
\* is at most PendingWindow (512) characters long, whatever the chunks and
\* the length of the preamble.
C15_PendingBounded ==
    ~metaDone => Len(pending) <= PendingWindow

\* more than PendingWindow characters have been handled without a marker in
\* them and the run keeps exactly the last PendingWindow of them
C15_Witness ==
    /\ last.op = "stream" /\ last.ran
    /\ ~metaDone
    /\ pos > PendingWindow
    /\ dropped = pos - PendingWindow
    /\ pending = SubSeq(stream, pos - PendingWindow + 1, pos)

\* C16: when the stdout handled so far contains a whole boundary marker (of
\* at most PendingWindow characters), the boundary has been found, however
\* the stream was cut into chunks: the truncation of pending never loses the
\* beginning of a marker that is still incomplete.
C16_MarkerFoundWhenComplete ==
    (pos > 0 /\ MarkerIndex(SubSeq(stream, 1, pos)) # 0) => metaDone

\* the marker of PendingWindow characters was found although pending had
\* been truncated while only a part of the marker had arrived
C16_Witness ==
    /\ stream = WideStream
    /\ last.op = "stream" /\ last.ran
    /\ metaDone
    /\ dropped > 0
    /\ pos = 20 + Len(WideMarker)

\* C17: when no stream event has completed the boundary marker, a handled
\* completion with ok = true finds the output accumulator empty and (no user
\* edits) leaves the buffer as the original one with the sanitized, trimmed
\* completion output inserted at the offset captured at the start, or in the
\* place of the selection.
C17_FallbackInsertsOutput ==
    (/\ last.op = "complete" /\ last.ran /\ last.ok
     /\ ~metaDone /\ userEdits = 0)
        => /\ outBuf = <<>>
           /\ buf = IF HasSelection
                    THEN SelectionReplacedBy(TrimEnd(TrimStart(NormEol(SanitizeAiChunk(output)))))
                    ELSE InsertedAtStart(TrimEnd(TrimStart(NormEol(SanitizeAiChunk(output)))))

\* C18: a stream event that is on stderr or carries the runId of another
\* run, and a completion event of another run, change nothing of this run:
\* pending, metaDone, the output accumulator, insertOffset, insertedAny, the
\* subscriptions, the cursor listener, the overlay, the buffer and the caret
\* stay as they are, also while a second run edits the same editor.
C18_ForeignEventsIgnored ==
    [][last'.op \in {"foreignStream", "foreignComplete"}
           => UNCHANGED <<pending, metaDone, outBuf, insertOffset, insertedAny,
                          streamSub, doneSub, cursorSub, streamBox, buf,
                          caret>>]_vars

\* such a stream event reached the listener while this run was streaming
\* and a second run had inserted text into the same buffer
C18_Witness ==
    /\ last.op = "foreignStream" /\ last.ran
    /\ streamSub /\ doneSub
    /\ metaDone /\ insertedAny
    /\ Len(outBuf) > 0
    /\ otherInserts > 0

\* C19: in a run without a selection in which text was streamed and the user
\* neither moved the caret nor typed, after a handled completion with
\* ok = true the buffer is the original one with the accumulated streamed
\* text, less its trailing white space, at the offset captured at the start,
\* and the caret is at the end of that text.
C19_StreamedTextTrimmed ==
    (/\ last.op = "complete" /\ last.ran /\ last.ok
     /\ ~HasSelection /\ Len(outBuf) > 0
     /\ userEdits = 0 /\ userMoves = 0)
        => /\ buf = InsertedAtStart(TrimEnd(outBuf))
           /\ caret = sel.start + Len(TrimEnd(outBuf))

\* C20: the sanitizer is idempotent: for every input x, with escape
\* sequences, fences and mixed line ends, sanitizeAiChunk(sanitizeAiChunk(x))
\* is sanitizeAiChunk(x).
C20_SanitizeIdempotent ==
    san.n = 2 => san.twice = san.once

RECURSIVE Flatten(_)
\* the concatenation of the segments in order
Flatten(segs) ==
    IF segs = <<>> THEN <<>> ELSE segs[1] \o Flatten(Tail(segs))

\* C21: for every string s and every size of at least 1, the segments
\* chunkForInsert returns, concatenated in order, are exactly s.
C21_SegmentsConcatToInput ==
    seg.done => Flatten(seg.out) = seg.s

\* the call has returned three segments, the first of them cut at a blank
\* before the window was full
C21_Witness ==
    /\ seg.done
    /\ seg.size = MaxSegSize
    /\ seg.s = <<"a", "a", " ", "a", "a">>
    /\ seg.out = <<<<"a", "a", " ">>, <<"a", "a">>>>

\* C22: for every string s and every size of at least 1, chunkForInsert
\* returns, and every segment it has pushed has at least 1 and at most size
\* characters.
C22_SegmenterTerminates ==
    /\ [](\A k \in 1..Len(seg.out) :
             Len(seg.out[k]) >= 1 /\ Len(seg.out[k]) <= seg.size)
    /\ <>seg.done

\* the call has returned after five iterations of one character each
C22_Witness ==
    /\ seg.done
    /\ seg.size = 1
    /\ Len(seg.s) = MaxSegLen
    /\ Len(seg.out) = MaxSegLen

\* C23: runCodex calls codexExecStream, and the process starts, only after
\* the listener of codex-stream and the listener of codex-complete are both
\* registered.
C23_ExecAfterBothListeners ==
    [][/\ (pc' = "exec" /\ pc # "exec") => (streamSub' /\ doneSub')
       /\ (proc' = "running" /\ proc # "running") => pc = "exec"]_vars

\* codexExecStream has just been called, with both listeners registered
C23_Witness ==
    /\ last.op = "listenDone"
    /\ pc = "exec"
    /\ streamSub
    /\ doneSub

\* the output fields that a second run may receive in place of output
OtherOutputs ==
    Outputs \cup {LongOutput, <<"Z", " ", "\n">>}

\* C24: when a codex-complete event with ok = true is handled in a run that
\* has streamed text (outBuf is not empty), the buffer and the caret after
\* it are those of the run that differs only in the output field of the
\* payload, whatever that field is.
C24_StreamedTextIgnoresOutput ==
    [][(/\ last'.op = "complete" /\ last'.ran /\ last'.ok
        /\ Len(outBuf) > 0)
       => \A o \in OtherOutputs :
              \E r \in {SuccessResult(o, thrown' # thrown)} :
                  buf' = r.buf /\ caret' = r.caret]_vars

\* a successful completion was handled after text was streamed, with an
\* output field that is not the streamed text
C24_Witness ==
    /\ last.op = "complete" /\ last.ran /\ last.ok
    /\ Len(outBuf) > 0
    /\ HasSelection
    /\ output # <<>>
    /\ NormEol(SanitizeAiChunk(output)) # NormEol(outBuf)

\* C25: in a run without a selection, a stream event never lowers
\* insertOffset and raises it by exactly the length of the text it appends
\* to outBuf and, when executeEdits returns, by exactly the length of the
\* text it inserts into the buffer; insertOffset goes down only in a
\* successful completion that deletes the white space at the end of the
\* streamed text, by the length of that white space; and from the start of
\* the run on it is never below the offset of the start of the selection.
C25_InsertOffsetMonotone ==
    [][~HasSelection =>
         /\ last'.op = "stream" =>
                /\ insertOffset' >= insertOffset
                /\ insertOffset' - insertOffset = Len(outBuf') - Len(outBuf)
                /\ thrown' = thrown =>
                       insertOffset' - insertOffset = Len(buf') - Len(buf)
         /\ insertOffset' < insertOffset =>
                /\ last'.op = "complete" /\ last'.ran /\ last'.ok
                /\ Len(outBuf) > 0
                /\ insertOffset - insertOffset' = TrailingSpace(NormEol(outBuf))
         /\ pc' # "idle" => insertOffset' >= sel.start]_vars

\* without a selection, "HI" and the white space after it were inserted and
\* the completion took insertOffset back over the white space
C25_Witness ==
    /\ ~HasSelection
    /\ last.op = "complete" /\ last.ran /\ last.ok
    /\ Len(outBuf) = 4
    /\ insertOffset = sel.start + 2

\* C26: metaDone never goes back from true to false, and after every
\* stream event the listener has handled with metaDone true, pending is
\* empty.
C26_BoundaryStaysFound ==
    [][/\ metaDone => metaDone'
       /\ (last'.op = "stream" /\ last'.ran /\ metaDone') => pending' = <<>>]_vars

\* the last chunk of the stream was handled after the marker was found: all
\* the text after the marker is in outBuf and pending is empty
C26_Witness ==
    /\ last.op = "stream" /\ last.ran
    /\ metaDone
    /\ pending = <<>>
    /\ pos = Len(stream)
    /\ Len(outBuf) = 4

\* the tab with the id tabId in the state a of the store
TabOf(a, tabId) ==
    a.tabs[CHOOSE k \in 1..Len(a.tabs) : a.tabs[k].id = tabId]

\* the ids of the tabs in the list
TabIds ==
    {app.tabs[k].id : k \in 1..Len(app.tabs)}

\* C27: when App.closeTab closes a dirty tab and the user answers "save",
\* the content of the tab being closed is in the file of that tab when the
\* tab is removed and its draft deleted, also when the tab is not the
\* active one.
C27_CloseSavesClosedTab ==
    [][(app'.call.op = "closeTab" /\ app'.call.choice = "save")
       => /\ app'.call.tabId \in DOMAIN app'.files
          /\ app'.files[app'.call.tabId]
                 = TabOf(app, app'.call.tabId).content]_vars

\* C28: when quit is requested with dirty tabs and the user answers "save"
\* (every write succeeds), every tab that was dirty is saved, its content in
\* its file, and quitApp is called.
C28_QuitSavesAllThenQuits ==
    [][(app'.call.op = "quit" /\ app'.call.choice = "save")
       => /\ app'.quit
          /\ \A k \in 1..Len(app.tabs) :
                 app.tabs[k].isDirty =>
                    /\ app'.files[app.tabs[k].id] = app.tabs[k].content
                    /\ ~TabOf(app', app.tabs[k].id).isDirty]_vars

\* C29: a tab that App.closeTab has removed has no draft, then and later.
C29_NoDraftAfterClose ==
    \A tabId \in 1..(app.nextTabId - 1) :
        tabId \notin TabIds => tabId \notin app.drafts

\* C30: after any sequence of calls of createTab, closeTab, setActiveTab,
\* closeAllTabs, closeOtherTabs and closeTabsToRight, activeTabId is null
\* exactly when the list of tabs is empty, and else the id of a tab of the
\* list.
C30_ActiveTabInList ==
    /\ app.activeTabId = 0 <=> app.tabs = <<>>
    /\ app.activeTabId # 0 => app.activeTabId \in TabIds

\* the active tab was closed with other tabs left, and a tab of the list
\* is active
C30_Witness ==
    /\ app.call.op = "closeTab"
    /\ app.call.tabId = app.call.active
    /\ Len(app.tabs) >= 2
    /\ app.activeTabId \in TabIds
====
